---- MODULE Spec2Model ----
(***************************************************************************)
(* Model of the shopping-list bot: the per-user FSM session kept by the    *)
(* aiogram MemoryStorage, the process-wide background store, and the       *)
(* handlers of src/handlers/photo_handler.py running as cooperative tasks  *)
(* (Dispatcher.start_polling handles every update in a task of its own, so *)
(* two handlers of one user may overlap; a task yields only at real I/O).  *)
(* One action is one atomic run of a handler between two accesses to the   *)
(* shared stores.                                                          *)
(***************************************************************************)
EXTENDS Integers, Sequences, FiniteSets, Bags, TLC

\* ------------------------------------------------------------------ bounds
\* Handlers that may be suspended at the same time when one user talks to
\* the bot, and when two users do.
MaxTasks == 2
MaxShared == 1
\* config.MAX_POLLS is 300; the model keeps the loop, with a shorter budget.
MAX_POLLS == 2
\* max_text_length is 3000 in the handlers; the model keeps the slice, with a
\* shorter cap.  LongText below is always one character longer than the cap.
max_text_length == 4

\* --------------------------------------------------------------- constants
IMAGE_MAX_SIZE == 10 * 1024 * 1024
PDF_MAX_SIZE == 50 * 1024 * 1024

Users == {"A", "B"}

\* FSM states: None, TextConfirmation.*, BackgroundUpload.*
NoState == "None"
waiting_for_confirmation == "waiting_for_confirmation"
editing_text == "editing_text"
waiting_for_background == "waiting_for_background"
FsmStates == {NoState, waiting_for_confirmation, editing_text, waiting_for_background}

\* ------------------------------------------------------------------- texts
\* A text is a sequence of characters; " " stands for any whitespace.
LongText == [k \in 1..(max_text_length + 1) |-> "a"]
\* Texts a user may send as a message (a text message is never empty).
Texts == { <<" ">>, <<"a">>, <<" ", "a">>, LongText }
\* Texts the OCR API returns as markdown.
Markdowns == { <<>>, <<" ">>, <<"a">> }

\* Declared file sizes; 0 stands for a missing (None) or zero file_size.
Sizes == {0, IMAGE_MAX_SIZE, IMAGE_MAX_SIZE + 1, PDF_MAX_SIZE, PDF_MAX_SIZE + 1}

\* Contents of a downloaded background image.
Bytes == {"img1", "img2"}
NoBytes == "none"

Min(a, b) == IF a <= b THEN a ELSE b

\* What str.strip() and str.split() take for whitespace; "\n" is the line break.
Whitespace == {" ", "\n"}

RECURSIVE lstrip(_)
lstrip(s) == IF s # <<>> /\ Head(s) \in Whitespace THEN lstrip(Tail(s)) ELSE s

RECURSIVE rstrip(_)
rstrip(s) ==
    IF s # <<>> /\ s[Len(s)] \in Whitespace THEN rstrip(SubSeq(s, 1, Len(s) - 1)) ELSE s

\* str.strip()
strip(s) == rstrip(lstrip(s))

\* text[:n]
Slice(s, n) == SubSeq(s, 1, Min(n, Len(s)))

\* Python truthiness of a str
Truthy(s) == s # <<>>

\* `not text or not text.strip()`
Blank(s) == ~Truthy(s) \/ ~Truthy(strip(s))

\* Mutant of TooBig: every kind is held to the document ceiling.
TooBigDocumentCeiling(file_size, max_size) == file_size # 0 /\ file_size > PDF_MAX_SIZE

\* `file_size and file_size > max_size`
TooBig(file_size, max_size) == file_size # 0 /\ file_size > max_size

\* ------------------------------------------------------------------- state
VARIABLES
    users,              \* the users talking to the bot in this run
    state,              \* FSMContext state of each user (MemoryStorage)
    data,               \* FSMContext data of each user: <<>> or <<extracted_text>>
    user_backgrounds,   \* the global background store
    tasks,              \* bag of suspended handler tasks
    last,               \* what the handler step just taken did (observation)
    config,             \* config.OCR_PROVIDER and whether DATALAB_API_KEY is set
    ocr_service,        \* the OCRService object: provider and its two backend slots
    objects,            \* number of backend objects constructed so far
    call                \* the last call of a component examined on its own

\* What the handlers of the bot never touch
outside == <<users, config, ocr_service, objects, call>>

\* What the components examined on their own never touch
session == <<users, state, data, user_backgrounds, tasks, last>>

vars == <<users, state, data, user_backgrounds, tasks, last, config, ocr_service, objects, call>>

\* data.get("extracted_text", "")
GetText(d) == IF d = <<>> THEN <<>> ELSE d[1]

Task(h, pc, u) == [h |-> h, pc |-> pc, u |-> u, i |-> 0, text |-> <<>>, bytes |-> NoBytes]

Obs(u, ev, reply) ==
    [u |-> u, ev |-> ev, reply |-> reply, exc |-> FALSE, why |-> "",
     arg |-> <<>>, shown |-> <<>>, rendered |-> <<>>, bg |-> NoBytes]

\* What a step shows.  With one user the whole observation is kept; with two
\* users only what the frame property reads: who acted, and the background a
\* render read.
Seen(o) ==
    IF Cardinality(users) = 1 THEN o
    ELSE IF o.ev = "render" THEN [Obs(o.u, "render", "") EXCEPT !.bg = o.bg]
    ELSE Obs(o.u, "step", "")

Record(o) == last' = Seen(o)

\* Mutant of Busy: only the editing state counts as busy.
BusyOnlyEditing(current_state) == current_state = editing_text

\* `if current_state:` of handle_photo and handle_document
Busy(current_state) == current_state # NoState

Spawn(t) == tasks (+) SetToBag({t})
Retire(t) == tasks (-) SetToBag({t})
Replace(t, t2) == (tasks (-) SetToBag({t})) (+) SetToBag({t2})
Running == BagToSet(tasks)
CanSpawn == BagCardinality(tasks) < (IF Cardinality(users) = 1 THEN MaxTasks ELSE MaxShared)

\* A fresh process: MemoryStorage and user_backgrounds are empty.
Fresh ==
    /\ state = [u \in Users |-> NoState]
    /\ data = [u \in Users |-> <<>>]
    /\ user_backgrounds = [u \in Users |-> NoBytes]
    /\ tasks = EmptyBag
    /\ last = Obs("A", "init", "none")

\* No object is referred to
NoObject == 0

\* No component call has been made
NoCall == [fn |-> "none"]

\* The selector is not used by the handlers (they hold a DatalabService of
\* their own): in the specifications of the bot it stays unconstructed.
Unused ==
    /\ config = [OCR_PROVIDER |-> "datalab", DATALAB_API_KEY |-> TRUE]
    /\ ocr_service = [provider |-> "datalab", datalab_service |-> NoObject, paddle_service |-> NoObject]
    /\ objects = 0
    /\ call = NoCall

Init == users = {"A"} /\ Fresh /\ Unused

InitUsers == users = Users /\ Fresh /\ Unused

\* ---------------------------------------------------------- upload handlers
\* @router.message(F.photo): reached only when the earlier background
\* handlers did not match, i.e. the state is not waiting_for_background.
handle_photo(u, size, exc) ==
    /\ state[u] # waiting_for_background
    /\ IF Busy(state[u])
       THEN /\ ~exc
            /\ Record(Obs(u, "upload", "finish_current"))
            /\ UNCHANGED <<state, data, user_backgrounds, tasks>>
       ELSE IF TooBig(size, IMAGE_MAX_SIZE)
       THEN IF exc
            THEN /\ CanSpawn
                 /\ tasks' = Spawn(Task("upload", "except", u))
                 /\ Record([Obs(u, "upload", "none") EXCEPT !.exc = TRUE])
                 /\ UNCHANGED <<state, data, user_backgrounds>>
            ELSE /\ Record(Obs(u, "upload", "too_big"))
                 /\ UNCHANGED <<state, data, user_backgrounds, tasks>>
       ELSE /\ ~exc
            /\ CanSpawn
            /\ tasks' = Spawn(Task("upload", "submit", u))
            /\ Record(Obs(u, "upload", "processing"))
            /\ UNCHANGED <<state, data, user_backgrounds>>

\* @router.message(F.document): in waiting_for_background the message is taken
\* by handle_background_invalid, registered earlier.
handle_document(u, is_image, is_pdf, size, exc) ==
    /\ state[u] # waiting_for_background
    /\ IF Busy(state[u])
       THEN /\ ~exc
            /\ Record(Obs(u, "upload", "finish_current"))
            /\ UNCHANGED <<state, data, user_backgrounds, tasks>>
       ELSE IF ~is_image /\ ~is_pdf
       THEN /\ ~exc
            /\ Record([Obs(u, "upload", "none") EXCEPT !.why = "unsupported"])
            /\ UNCHANGED <<state, data, user_backgrounds, tasks>>
       ELSE LET max_size == IF is_pdf THEN PDF_MAX_SIZE ELSE IMAGE_MAX_SIZE IN
            IF TooBig(size, max_size)
            THEN IF exc
                 THEN /\ CanSpawn
                      /\ tasks' = Spawn(Task("upload", "except", u))
                      /\ Record([Obs(u, "upload", "none") EXCEPT !.exc = TRUE])
                      /\ UNCHANGED <<state, data, user_backgrounds>>
                 ELSE /\ Record(Obs(u, "upload", "too_big"))
                      /\ UNCHANGED <<state, data, user_backgrounds, tasks>>
            ELSE /\ ~exc
                 /\ CanSpawn
                 /\ tasks' = Spawn(Task("upload", "submit", u))
                 /\ Record(Obs(u, "upload", "processing"))
                 /\ UNCHANGED <<state, data, user_backgrounds>>

\* @router.message(Command("back"))
cmd_back(u) ==
    /\ state' = [state EXCEPT ![u] = waiting_for_background]
    /\ Record(Obs(u, "back", "bg_prompt"))
    /\ UNCHANGED <<data, user_backgrounds, tasks>>

\* ------------------------------------------------------------- OCR client
\* Optional[str]: <<>> is None, <<t>> is the string t.
None == <<>>
Some(t) == <<t>>

HttpResp(status, st, success, markdown) ==
    [kind |-> "http", status |-> status, st |-> st, success |-> success, markdown |-> markdown]
\* aiohttp.ClientError raised by the request
ClientError == [kind |-> "client_error", status |-> 0, st |-> "", success |-> FALSE, markdown |-> None]
\* any other exception (bad JSON, timeout of the HTTP library, ...)
OtherError == [kind |-> "error", status |-> 0, st |-> "", success |-> FALSE, markdown |-> None]

\* Answers to the submit POST; st carries the request_id ("" when absent).
SubmitResponses ==
    { HttpResp(200, "r1", TRUE, None), HttpResp(200, "", TRUE, None),
      HttpResp(200, "r1", FALSE, None), HttpResp(500, "", FALSE, None),
      ClientError, OtherError }

\* Answers to a status GET; markdown is None when the key is absent.
PollResponses ==
    { HttpResp(200, "processing", FALSE, None), HttpResp(200, "queued", FALSE, None),
      HttpResp(500, "", FALSE, None),
      HttpResp(200, "failed", FALSE, None), HttpResp(200, "complete", FALSE, None),
      HttpResp(200, "complete", TRUE, None),
      ClientError, OtherError }
    \cup { HttpResp(200, "complete", TRUE, Some(t)) : t \in Markdowns }

\* What a call returns or does: tag "return" with an Optional[str] value,
\* "raise" (an exception leaves the function), "continue" (next iteration).
Return(v) == [tag |-> "return", value |-> v]
\* Mutant of Raise: an exception leaves the text read so far as the result.
RaisePartial == [tag |-> "raise", value |-> <<(<<"a">>)>>]
Raise == [tag |-> "raise", value |-> None]
Continue == [tag |-> "continue", value |-> None]

\* Mutant of _submit_image: the success flag is not looked at.
_submit_image_ignores_success(resp) ==
    IF resp.kind = "client_error" THEN Return(None)
    ELSE IF resp.kind = "error" THEN Raise
    ELSE IF resp.status # 200 THEN Return(None)
    ELSE Return(Some(resp.st))

\* DatalabService._submit_image: the request_id, or None
_submit_image(resp) ==
    IF resp.kind = "client_error" THEN Return(None)
    ELSE IF resp.kind = "error" THEN Raise
    ELSE IF resp.status # 200 THEN Return(None)
    ELSE IF ~resp.success THEN Return(None)
    ELSE Return(Some(resp.st))

\* Mutant of poll_once: an empty result text is turned into None.
poll_once_empty_is_null(resp) ==
    IF resp.kind = "client_error" THEN Continue
    ELSE IF resp.kind = "error" THEN Raise
    ELSE IF resp.status # 200 THEN Continue
    ELSE IF resp.st = "complete"
         THEN IF resp.success /\ resp.markdown # None /\ resp.markdown # Some(<<>>)
              THEN Return(resp.markdown)
              ELSE Return(None)
    ELSE IF resp.st = "failed" THEN Return(None)
    ELSE Continue

\* One iteration of the loop of DatalabService._poll_for_result
poll_once(resp) ==
    IF resp.kind = "client_error" THEN Continue
    ELSE IF resp.kind = "error" THEN Raise
    ELSE IF resp.status # 200 THEN Continue
    ELSE IF resp.st = "complete"
         THEN IF resp.success
              THEN Return(IF resp.markdown = None THEN Some(<<>>) ELSE resp.markdown)
              ELSE Return(None)
    ELSE IF resp.st = "failed" THEN Return(None)
    ELSE Continue

\* Why an extraction gave no usable text (for the observation only).
Cause(phase, resp, result) ==
    IF result # None THEN (IF strip(result[1]) = <<>> THEN "empty" ELSE "")
    ELSE IF resp.kind = "error" THEN "exception"
    ELSE IF phase = "submit" THEN "submit"
    ELSE IF resp.kind = "http" /\ resp.status = 200 /\ resp.st \in {"failed", "complete"}
         THEN "failed_job"
    ELSE "timeout"

\* Mutant of process_image: the emptiness test forgets .strip()
process_image_no_strip(t, result, why, exc) ==
    IF result = None \/ ~Truthy(result[1])
    THEN /\ tasks' = IF exc THEN Replace(t, Task("upload", "except", t.u)) ELSE Retire(t)
         /\ Record([Obs(t.u, "extracted", IF exc THEN "none" ELSE "extract_failed")
                        EXCEPT !.why = why, !.exc = exc])
         /\ UNCHANGED <<state, data, user_backgrounds>>
    ELSE /\ data' = [data EXCEPT ![t.u] = Some(result[1])]
         /\ state' = [state EXCEPT ![t.u] = waiting_for_confirmation]
         /\ tasks' = IF exc THEN Replace(t, Task("upload", "except", t.u)) ELSE Retire(t)
         /\ Record([Obs(t.u, "extracted", IF exc THEN "none" ELSE "confirm_view")
                        EXCEPT !.why = why, !.exc = exc,
                               !.shown = Slice(result[1], max_text_length)])
         /\ UNCHANGED user_backgrounds

\* process_image / process_pdf after extract_text_from_image returned result:
\* the failure notice, or show_text_for_confirmation.  exc: the transport call
\* that sends the notice or the confirmation view raises, which takes the
\* task to the except block of its upload handler.
process_image(t, result, why, exc) ==
    IF result = None \/ Blank(result[1])
    THEN /\ tasks' = IF exc THEN Replace(t, Task("upload", "except", t.u)) ELSE Retire(t)
         /\ Record([Obs(t.u, "extracted", IF exc THEN "none" ELSE "extract_failed")
                        EXCEPT !.why = why, !.exc = exc])
         /\ UNCHANGED <<state, data, user_backgrounds>>
    ELSE /\ data' = [data EXCEPT ![t.u] = Some(result[1])]
         /\ state' = [state EXCEPT ![t.u] = waiting_for_confirmation]
         /\ tasks' = IF exc THEN Replace(t, Task("upload", "except", t.u)) ELSE Retire(t)
         /\ Record([Obs(t.u, "extracted", IF exc THEN "none" ELSE "confirm_view")
                        EXCEPT !.why = why, !.exc = exc,
                               !.shown = Slice(result[1], max_text_length)])
         /\ UNCHANGED user_backgrounds

\* extract_text_from_image, first phase: the submit request of an upload task
submit(t, resp, exc) ==
    /\ t \in Running /\ t.h = "upload" /\ t.pc = "submit"
    /\ LET r == _submit_image(resp) IN
       IF r.tag = "return" /\ r.value # None /\ r.value[1] # ""
       THEN /\ ~exc
            /\ tasks' = Replace(t, [t EXCEPT !.pc = "poll", !.i = 0])
            /\ Record(Obs(t.u, "submit", "none"))
            /\ UNCHANGED <<state, data, user_backgrounds>>
       ELSE process_image(t, None, Cause("submit", resp, None), exc)

\* Mutant of poll: when the budget is used up the count starts again.
poll_restarts_budget(t, resp, exc) ==
    /\ t \in Running /\ t.h = "upload" /\ t.pc = "poll" /\ t.i < MAX_POLLS
    /\ LET r == poll_once(resp) IN
       IF r.tag = "continue"
       THEN /\ ~exc
            /\ tasks' = Replace(t, [t EXCEPT !.i = (t.i + 1) % MAX_POLLS])
            /\ Record(Obs(t.u, "poll", "none"))
            /\ UNCHANGED <<state, data, user_backgrounds>>
       ELSE process_image(t, r.value, Cause("poll", resp, r.value), exc)

\* Mutant of poll: a network error does not use up an attempt.
poll_network_error_free(t, resp, exc) ==
    /\ t \in Running /\ t.h = "upload" /\ t.pc = "poll" /\ t.i < MAX_POLLS
    /\ LET r == poll_once(resp) IN
       IF resp.kind = "client_error"
       THEN /\ ~exc
            /\ tasks' = tasks
            /\ Record(Obs(t.u, "poll", "none"))
            /\ UNCHANGED <<state, data, user_backgrounds>>
       ELSE IF r.tag = "continue" /\ t.i + 1 < MAX_POLLS
       THEN /\ ~exc
            /\ tasks' = Replace(t, [t EXCEPT !.i = t.i + 1])
            /\ Record(Obs(t.u, "poll", "none"))
            /\ UNCHANGED <<state, data, user_backgrounds>>
       ELSE process_image(t, r.value, Cause("poll", resp, r.value), exc)

\* extract_text_from_image, second phase: iteration t.i of range(MAX_POLLS)
poll(t, resp, exc) ==
    /\ t \in Running /\ t.h = "upload" /\ t.pc = "poll" /\ t.i < MAX_POLLS
    /\ LET r == poll_once(resp) IN
       IF r.tag = "continue" /\ t.i + 1 < MAX_POLLS
       THEN /\ ~exc
            /\ tasks' = Replace(t, [t EXCEPT !.i = t.i + 1])
            /\ Record(Obs(t.u, "poll", "none"))
            /\ UNCHANGED <<state, data, user_backgrounds>>
       ELSE process_image(t, r.value, Cause("poll", resp, r.value), exc)

\* except/finally of handle_photo and handle_document: an exception raised at
\* an await of the handler (download, status edit, sending the view) is
\* logged, the apology is attempted, and state.clear() always runs.
upload_except(t, sent) ==
    /\ t \in Running /\ t.h = "upload"
    /\ state' = [state EXCEPT ![t.u] = NoState]
    /\ data' = [data EXCEPT ![t.u] = <<>>]
    /\ tasks' = Retire(t)
    /\ Record([Obs(t.u, "upload_except", IF sent THEN "apology" ELSE "apology_failed") EXCEPT !.exc = TRUE])
    /\ UNCHANGED user_backgrounds

\* -------------------------------------------------------- background flow
\* Mutant of handle_background_photo: the size is not looked at.
handle_background_photo_unchecked(u, size, bytes, exc) ==
    /\ state[u] = waiting_for_background
    /\ ~exc
    /\ CanSpawn
    /\ tasks' = Spawn([Task("background", "download", u) EXCEPT !.bytes = bytes])
    /\ Record(Obs(u, "background", "none"))
    /\ UNCHANGED <<state, data, user_backgrounds>>

\* @router.message(StateFilter(waiting_for_background), F.photo).
\* exc: the size notice raises, which takes the handler to its except block.
handle_background_photo(u, size, bytes, exc) ==
    /\ state[u] = waiting_for_background
    /\ IF TooBig(size, IMAGE_MAX_SIZE) /\ ~exc
       THEN /\ Record(Obs(u, "background", "too_big"))
            /\ UNCHANGED <<state, data, user_backgrounds, tasks>>
       ELSE /\ CanSpawn
            /\ tasks' = Spawn(IF TooBig(size, IMAGE_MAX_SIZE)
                              THEN Task("background", "except", u)
                              ELSE [Task("background", "download", u) EXCEPT !.bytes = bytes])
            /\ Record(Obs(u, "background", "none"))
            /\ UNCHANGED <<state, data, user_backgrounds>>

\* handle_background_photo after the download: store, clear, acknowledge.
\* exc: the acknowledgement raises; the except block then clears again.
background_store(t, exc) ==
    /\ t \in Running /\ t.h = "background" /\ t.pc = "download"
    /\ user_backgrounds' = [user_backgrounds EXCEPT ![t.u] = t.bytes]
    /\ state' = [state EXCEPT ![t.u] = NoState]
    /\ data' = [data EXCEPT ![t.u] = <<>>]
    /\ tasks' = IF exc THEN Replace(t, Task("background", "except", t.u)) ELSE Retire(t)
    /\ Record([Obs(t.u, "background_store", IF exc THEN "none" ELSE "bg_saved")
                   EXCEPT !.exc = exc, !.bg = t.bytes])

\* except block of handle_background_photo: the apology is sent and then the
\* state is cleared; when the apology itself raises, the clear is skipped.
background_except(t, sent) ==
    /\ t \in Running /\ t.h = "background"
    /\ IF sent
       THEN /\ state' = [state EXCEPT ![t.u] = NoState]
            /\ data' = [data EXCEPT ![t.u] = <<>>]
       ELSE UNCHANGED <<state, data>>
    /\ tasks' = Retire(t)
    /\ Record([Obs(t.u, "background_except", IF sent THEN "apology" ELSE "apology_failed")
                   EXCEPT !.exc = TRUE])
    /\ UNCHANGED user_backgrounds

\* Mutant of handle_background_invalid: the rejection ends the sub-flow.
handle_background_invalid_clears(u) ==
    /\ state[u] = waiting_for_background
    /\ state' = [state EXCEPT ![u] = NoState]
    /\ data' = [data EXCEPT ![u] = <<>>]
    /\ Record(Obs(u, "background_invalid", "bg_retry"))
    /\ UNCHANGED <<user_backgrounds, tasks>>

\* @router.message(StateFilter(waiting_for_background)): any message that is
\* neither a photo nor a command taken by an earlier handler.
handle_background_invalid(u) ==
    /\ state[u] = waiting_for_background
    /\ Record(Obs(u, "background_invalid", "bg_retry"))
    /\ UNCHANGED <<state, data, user_backgrounds, tasks>>

\* ------------------------------------------------------------- layout engine
\* ImageGenerator.create_image_with_text as the handlers see it: None for a
\* blank text or when rendering fails (ok = FALSE), otherwise an image.
create_image_with_text(text, background_image_bytes, ok) ==
    IF Blank(text) \/ ~ok THEN None ELSE Some([text |-> text, bg |-> background_image_bytes])

\* ----------------------------------------------------------------- callbacks
\* confirm_text_handler up to the first await after reading the text
confirm_text_handler(u) ==
    /\ state[u] = waiting_for_confirmation
    /\ LET extracted_text == GetText(data[u]) IN
       IF ~Truthy(extracted_text)
       THEN /\ state' = [state EXCEPT ![u] = NoState]
            /\ data' = [data EXCEPT ![u] = <<>>]
            /\ Record(Obs(u, "confirm", "text_not_found"))
            /\ UNCHANGED <<user_backgrounds, tasks>>
       ELSE /\ CanSpawn
            /\ tasks' = Spawn([Task("confirm", "render", u) EXCEPT !.text = extracted_text])
            /\ Record(Obs(u, "confirm", "none"))
            /\ UNCHANGED <<state, data, user_backgrounds>>

\* Mutant of BackgroundOf: one background shared by all users.
BackgroundOfAnyone(u) == user_backgrounds[CHOOSE v \in Users : TRUE]

\* Mutant of BackgroundOf: the store is never consulted.
BackgroundOfNoOne(u) == NoBytes

\* user_backgrounds.get(message.from_user.id)
BackgroundOf(u) == user_backgrounds[u]

\* create_image_from_text: read the background, render, deliver
create_image_from_text(t, ok) ==
    /\ t \in Running /\ t.h = "confirm" /\ t.pc = "render"
    /\ LET background_image_bytes == BackgroundOf(t.u)
           result_image == create_image_with_text(t.text, background_image_bytes, ok)
       IN /\ tasks' = Replace(t, [t EXCEPT !.pc = "clear"])
          /\ Record([Obs(t.u, "render", IF result_image = None THEN "image_failed" ELSE "photo")
                         EXCEPT !.rendered = Some(t.text), !.bg = background_image_bytes])
    /\ UNCHANGED <<state, data, user_backgrounds>>

\* Mutant of confirm_clear: the text is dropped and the state is kept.
confirm_clear_keeps_state(t) ==
    /\ t \in Running /\ t.h = "confirm" /\ t.pc = "clear"
    /\ data' = [data EXCEPT ![t.u] = <<>>]
    /\ tasks' = Retire(t)
    /\ Record(Obs(t.u, "confirm_clear", "image_created"))
    /\ UNCHANGED <<state, user_backgrounds>>

\* confirm_text_handler after create_image_from_text returned
confirm_clear(t) ==
    /\ t \in Running /\ t.h = "confirm" /\ t.pc = "clear"
    /\ state' = [state EXCEPT ![t.u] = NoState]
    /\ data' = [data EXCEPT ![t.u] = <<>>]
    /\ tasks' = Retire(t)
    /\ Record(Obs(t.u, "confirm_clear", "image_created"))
    /\ UNCHANGED user_backgrounds

\* An exception raised at an await of confirm_text_handler before the clear
\* (the progress notice, the failure notice, answer_photo): the handler has
\* no try block, the exception leaves it.
confirm_raise(t) ==
    /\ t \in Running /\ t.h = "confirm"
    /\ tasks' = Retire(t)
    /\ Record([Obs(t.u, "confirm_raise", "none") EXCEPT !.exc = TRUE])
    /\ UNCHANGED <<state, data, user_backgrounds>>

\* edit_text_handler
edit_text_handler(u) ==
    /\ state[u] = waiting_for_confirmation
    /\ LET extracted_text == GetText(data[u]) IN
       IF ~Truthy(extracted_text)
       THEN /\ state' = [state EXCEPT ![u] = NoState]
            /\ data' = [data EXCEPT ![u] = <<>>]
            /\ Record(Obs(u, "edit", "text_not_found"))
       ELSE /\ state' = [state EXCEPT ![u] = editing_text]
            /\ data' = data
            /\ Record([Obs(u, "edit", "edit_view")
                           EXCEPT !.shown = Slice(extracted_text, max_text_length)])
    /\ UNCHANGED <<user_backgrounds, tasks>>

\* Mutant of back_to_confirmation_handler: the display copy is written back.
back_to_confirmation_handler_stores_display(u) ==
    /\ state[u] = editing_text
    /\ LET extracted_text == GetText(data[u]) IN
       /\ state' = [state EXCEPT ![u] = waiting_for_confirmation]
       /\ data' = [data EXCEPT ![u] = Some(Slice(extracted_text, max_text_length))]
       /\ Record([Obs(u, "back_to_confirmation", "confirm_view")
                      EXCEPT !.shown = Slice(extracted_text, max_text_length)])
    /\ UNCHANGED <<user_backgrounds, tasks>>

\* back_to_confirmation_handler
back_to_confirmation_handler(u) ==
    /\ state[u] = editing_text
    /\ LET extracted_text == GetText(data[u]) IN
       /\ state' = [state EXCEPT ![u] = waiting_for_confirmation]
       /\ Record([Obs(u, "back_to_confirmation", "confirm_view")
                      EXCEPT !.shown = Slice(extracted_text, max_text_length)])
    /\ UNCHANGED <<data, user_backgrounds, tasks>>

\* Mutant of cancel_text_handler: the cancel also forgets the background.
cancel_text_handler_drops_background(u) ==
    /\ state' = [state EXCEPT ![u] = NoState]
    /\ data' = [data EXCEPT ![u] = <<>>]
    /\ user_backgrounds' = [user_backgrounds EXCEPT ![u] = NoBytes]
    /\ Record([Obs(u, "cancel", "cancelled")
                   EXCEPT !.why = state[u], !.arg = GetText(data[u])])
    /\ UNCHANGED tasks

\* cancel_text_handler: no state filter, the clear comes first.  The
\* observation keeps the state the click arrived in and the text it discarded.
cancel_text_handler(u) ==
    /\ state' = [state EXCEPT ![u] = NoState]
    /\ data' = [data EXCEPT ![u] = <<>>]
    /\ Record([Obs(u, "cancel", "cancelled")
                   EXCEPT !.why = state[u], !.arg = GetText(data[u])])
    /\ UNCHANGED <<user_backgrounds, tasks>>

\* A callback query that no handler of the router accepts: confirm_text and
\* edit_text outside waiting_for_confirmation, back_to_confirmation outside
\* editing_text.  Nothing runs and nothing is answered.
CallbackData == {"confirm_text", "edit_text", "back_to_confirmation", "cancel_text"}
Accepted(cb, st) ==
    \/ cb \in {"confirm_text", "edit_text"} /\ st = waiting_for_confirmation
    \/ cb = "back_to_confirmation" /\ st = editing_text
    \/ cb = "cancel_text"

unhandled_callback(u, cb) ==
    /\ ~Accepted(cb, state[u])
    /\ Record([Obs(u, "unhandled", "none") EXCEPT !.why = cb])
    /\ UNCHANGED <<state, data, user_backgrounds, tasks>>

\* ------------------------------------------------------------ text messages
\* Mutant of process_edited_text: the display copy is what gets stored.
process_edited_text_stores_display(u, text) ==
    /\ state[u] = editing_text
    /\ Truthy(text)
    /\ LET edited_text == strip(text)
           display_text == Slice(edited_text, max_text_length) IN
       IF ~Truthy(edited_text)
       THEN /\ Record([Obs(u, "edited", "empty_edit") EXCEPT !.arg = text])
            /\ UNCHANGED <<state, data>>
       ELSE /\ data' = [data EXCEPT ![u] = Some(display_text)]
            /\ state' = [state EXCEPT ![u] = waiting_for_confirmation]
            /\ Record([Obs(u, "edited", "edited_view")
                           EXCEPT !.arg = text, !.shown = display_text])
    /\ UNCHANGED <<user_backgrounds, tasks>>

\* Mutant of process_edited_text: the emptiness test forgets .strip()
process_edited_text_accepts_blank(u, text) ==
    /\ state[u] = editing_text
    /\ Truthy(text)
    /\ LET edited_text == strip(text) IN
       /\ data' = [data EXCEPT ![u] = Some(edited_text)]
       /\ state' = [state EXCEPT ![u] = waiting_for_confirmation]
       /\ Record([Obs(u, "edited", "edited_view")
                      EXCEPT !.arg = text,
                             !.shown = Slice(edited_text, max_text_length)])
    /\ UNCHANGED <<user_backgrounds, tasks>>

\* process_edited_text: @router.message(StateFilter(editing_text), F.text)
process_edited_text(u, text) ==
    /\ state[u] = editing_text
    /\ Truthy(text)
    /\ LET edited_text == strip(text) IN
       IF ~Truthy(edited_text)
       THEN /\ Record([Obs(u, "edited", "empty_edit") EXCEPT !.arg = text])
            /\ UNCHANGED <<state, data>>
       ELSE /\ data' = [data EXCEPT ![u] = Some(edited_text)]
            /\ state' = [state EXCEPT ![u] = waiting_for_confirmation]
            /\ Record([Obs(u, "edited", "edited_view")
                           EXCEPT !.arg = text,
                                  !.shown = Slice(edited_text, max_text_length)])
    /\ UNCHANGED <<user_backgrounds, tasks>>

Next ==
    \/ \E u \in users, size \in Sizes, exc \in BOOLEAN : handle_photo(u, size, exc) /\ UNCHANGED outside
    \/ \E u \in users, is_image \in BOOLEAN, is_pdf \in BOOLEAN, size \in Sizes, exc \in BOOLEAN :
          handle_document(u, is_image, is_pdf, size, exc) /\ UNCHANGED outside
    \/ \E u \in users : cmd_back(u) /\ UNCHANGED outside
    \/ \E t \in Running, resp \in SubmitResponses, exc \in BOOLEAN : submit(t, resp, exc) /\ UNCHANGED outside
    \/ \E t \in Running, resp \in PollResponses, exc \in BOOLEAN : poll(t, resp, exc) /\ UNCHANGED outside
    \/ \E t \in Running, sent \in BOOLEAN : upload_except(t, sent) /\ UNCHANGED outside
    \/ \E u \in users, size \in Sizes, bytes \in Bytes, exc \in BOOLEAN :
          handle_background_photo(u, size, bytes, exc) /\ UNCHANGED outside
    \/ \E t \in Running, exc \in BOOLEAN : background_store(t, exc) /\ UNCHANGED outside
    \/ \E t \in Running, sent \in BOOLEAN : background_except(t, sent) /\ UNCHANGED outside
    \/ \E u \in users : handle_background_invalid(u) /\ UNCHANGED outside
    \/ \E u \in users : confirm_text_handler(u) /\ UNCHANGED outside
    \/ \E t \in Running, ok \in BOOLEAN : create_image_from_text(t, ok) /\ UNCHANGED outside
    \/ \E t \in Running : confirm_clear(t) /\ UNCHANGED outside
    \/ \E t \in Running : confirm_raise(t) /\ UNCHANGED outside
    \/ \E u \in users : edit_text_handler(u) /\ UNCHANGED outside
    \/ \E u \in users : back_to_confirmation_handler(u) /\ UNCHANGED outside
    \/ \E u \in users : cancel_text_handler(u) /\ UNCHANGED outside
    \/ \E u \in users, cb \in CallbackData : unhandled_callback(u, cb) /\ UNCHANGED outside
    \/ \E u \in users, text \in Texts : process_edited_text(u, text) /\ UNCHANGED outside

\* One user, overlapping handlers.
Spec == Init /\ [][Next]_vars

\* Every value a task of an upload handler can take
UploadTasks ==
    {Task("upload", "submit", u) : u \in Users}
        \cup {[Task("upload", "poll", u) EXCEPT !.i = i] : u \in Users, i \in 0..(MAX_POLLS - 1)}
        \cup {Task("upload", "except", u) : u \in Users}

\* The next step of the upload task t: its HTTP request returns, or the
\* await it is suspended at raises into the except block.
Resume(t) ==
    \/ \E resp \in SubmitResponses, exc \in BOOLEAN : submit(t, resp, exc) /\ UNCHANGED outside
    \/ \E resp \in PollResponses, exc \in BOOLEAN : poll(t, resp, exc) /\ UNCHANGED outside
    \/ \E sent \in BOOLEAN : upload_except(t, sent) /\ UNCHANGED outside

\* The uploads and everything that can change the session while they run
\* without suspending: the handlers that keep a task of their own (the
\* confirm and the background upload) never touch the task of an upload.
NextUploads ==
    \/ \E u \in users, size \in Sizes, exc \in BOOLEAN : handle_photo(u, size, exc) /\ UNCHANGED outside
    \/ \E u \in users, is_image \in BOOLEAN, is_pdf \in BOOLEAN, size \in Sizes, exc \in BOOLEAN :
          handle_document(u, is_image, is_pdf, size, exc) /\ UNCHANGED outside
    \/ \E u \in users : cmd_back(u) /\ UNCHANGED outside
    \/ \E t \in Running : Resume(t)
    \/ \E u \in users : handle_background_invalid(u) /\ UNCHANGED outside
    \/ \E u \in users : edit_text_handler(u) /\ UNCHANGED outside
    \/ \E u \in users : back_to_confirmation_handler(u) /\ UNCHANGED outside
    \/ \E u \in users : cancel_text_handler(u) /\ UNCHANGED outside
    \/ \E u \in users, text \in Texts : process_edited_text(u, text) /\ UNCHANGED outside

\* One user, overlapping uploads; the event loop resumes every suspended
\* upload handler whose awaited request has returned, and every request
\* returns.
SpecLive ==
    Init /\ [][NextUploads]_vars /\ \A t \in UploadTasks : WF_vars(Resume(t))

\* Two users sharing the process.
SpecUsers == InitUsers /\ [][Next]_vars

\* ======================================================= OCR provider selector
\* Backend objects constructed in one run of the selector.
MaxObjects == 3

\* Values of config.OCR_PROVIDER and DATALAB_API_KEY that config.py lets pass
Configs ==
    { [OCR_PROVIDER |-> "datalab", DATALAB_API_KEY |-> TRUE],
      [OCR_PROVIDER |-> "paddle", DATALAB_API_KEY |-> TRUE],
      [OCR_PROVIDER |-> "paddle", DATALAB_API_KEY |-> FALSE] }

\* Provider names a caller may ask for
Requests == {"datalab", "paddle", "Datalab", "PADDLE", "tesseract"}

\* str.lower()
lower(s) == CASE s = "Datalab" -> "datalab" [] s = "PADDLE" -> "paddle" [] OTHER -> s

\* What a call of _switch_provider leaves: the object, the (ok, message)
\* pair it returns, and the number of objects constructed
Switched(self, ok, msg, n) == [self |-> self, ok |-> ok, msg |-> msg, objects |-> n]

\* Mutant of _switch_provider: the old backend is dropped before the new one
\* is constructed.
_switch_provider_replace_first(self, n, request, paddle_ok) ==
    LET provider == lower(request)
        empty == [provider |-> provider, datalab_service |-> NoObject, paddle_service |-> NoObject]
    IN
    IF provider \notin {"datalab", "paddle"} THEN Switched(self, FALSE, "unknown", n)
    ELSE IF provider = self.provider
            /\ (\/ provider = "paddle" /\ self.paddle_service # NoObject
                \/ provider = "datalab" /\ self.datalab_service # NoObject)
    THEN Switched(self, TRUE, "already", n)
    ELSE IF provider = "paddle"
    THEN IF paddle_ok
         THEN Switched([empty EXCEPT !.paddle_service = n + 1], TRUE, "switched", n + 1)
         ELSE Switched(empty, FALSE, "paddle_failed", n)
    ELSE IF ~config.DATALAB_API_KEY THEN Switched(self, FALSE, "no_key", n)
    ELSE Switched([empty EXCEPT !.datalab_service = n + 1], TRUE, "switched", n + 1)

\* Mutant of _switch_provider: a successful switch keeps the old backend too.
_switch_provider_keeps_old(self, n, request, paddle_ok) ==
    LET provider == lower(request) IN
    IF provider \notin {"datalab", "paddle"} THEN Switched(self, FALSE, "unknown", n)
    ELSE IF provider = self.provider
            /\ (\/ provider = "paddle" /\ self.paddle_service # NoObject
                \/ provider = "datalab" /\ self.datalab_service # NoObject)
    THEN Switched(self, TRUE, "already", n)
    ELSE IF provider = "paddle"
    THEN IF paddle_ok
         THEN Switched([self EXCEPT !.paddle_service = n + 1, !.provider = provider],
                       TRUE, "switched", n + 1)
         ELSE Switched([self EXCEPT !.paddle_service = NoObject], FALSE, "paddle_failed", n)
    ELSE IF ~config.DATALAB_API_KEY THEN Switched(self, FALSE, "no_key", n)
    ELSE Switched([self EXCEPT !.datalab_service = n + 1, !.provider = provider],
                  TRUE, "switched", n + 1)

\* OCRService._switch_provider on the object self, n objects constructed so
\* far.  paddle_ok: whether PaddleOCRService(...) returns (TRUE) or raises
\* (FALSE).  DatalabService() only assigns three fields and always returns.
_switch_provider(self, n, request, paddle_ok) ==
    LET provider == lower(request) IN
    IF provider \notin {"datalab", "paddle"} THEN Switched(self, FALSE, "unknown", n)
    ELSE IF provider = self.provider
            /\ (\/ provider = "paddle" /\ self.paddle_service # NoObject
                \/ provider = "datalab" /\ self.datalab_service # NoObject)
    THEN Switched(self, TRUE, "already", n)
    ELSE IF provider = "paddle"
    THEN IF paddle_ok
         THEN Switched([provider |-> provider, datalab_service |-> NoObject,
                        paddle_service |-> n + 1], TRUE, "switched", n + 1)
         ELSE Switched([self EXCEPT !.paddle_service = NoObject], FALSE, "paddle_failed", n)
    ELSE IF ~config.DATALAB_API_KEY THEN Switched(self, FALSE, "no_key", n)
    ELSE Switched([provider |-> provider, datalab_service |-> n + 1,
                   paddle_service |-> NoObject], TRUE, "switched", n + 1)

\* The record of a selector call
OcrCall(fn, request, ok, msg) ==
    [fn |-> fn, request |-> request, ok |-> ok, msg |-> msg,
     used |-> NoObject, is_pdf |-> FALSE, result |-> None]

\* OCRService.__init__ under the configuration cfg
InitOCR ==
    /\ users = {"A"} /\ Fresh
    /\ config \in Configs
    /\ \E paddle_ok \in BOOLEAN :
          LET self == [provider |-> config.OCR_PROVIDER, datalab_service |-> NoObject,
                       paddle_service |-> NoObject]
              r == _switch_provider(self, 0, self.provider, paddle_ok)
          IN /\ ocr_service = r.self
             /\ objects = r.objects
             /\ call = OcrCall("__init__", self.provider, r.ok, r.msg)

\* OCRService.set_provider
set_provider(request, paddle_ok) ==
    /\ objects < MaxObjects
    /\ LET r == _switch_provider(ocr_service, objects, request, paddle_ok) IN
       /\ ocr_service' = r.self
       /\ objects' = r.objects
       /\ call' = OcrCall("set_provider", request, r.ok, r.msg)
    /\ UNCHANGED <<config, session>>

\* OCRService.extract_text.  text: what the backend that is called returns
\* for an image (PaddleOCRService returns None for a PDF without looking).
extract_text(is_pdf, text) ==
    /\ LET used == IF ocr_service.provider = "paddle" THEN ocr_service.paddle_service
                   ELSE ocr_service.datalab_service
           result == IF used = NoObject THEN None
                     ELSE IF ocr_service.provider = "paddle" /\ is_pdf THEN None
                     ELSE text
       IN call' = [OcrCall("extract_text", "", TRUE, "")
                      EXCEPT !.used = used, !.is_pdf = is_pdf, !.result = result]
    /\ UNCHANGED <<config, ocr_service, objects, session>>

NextOCR ==
    \/ \E request \in Requests, paddle_ok \in BOOLEAN :
          set_provider(request, paddle_ok)
    \/ \E is_pdf \in BOOLEAN, text \in {None} \cup {Some(t) : t \in Markdowns} :
          extract_text(is_pdf, text)

\* The provider selector on its own.
SpecOCR == InitOCR /\ [][NextOCR]_vars

\* ------------------------------------------------- layout engine, in detail
\* ImageGenerator on its own: what create_image_with_text computes from a
\* text.  A character of the model is one glyph; every glyph has the same
\* width, chosen so that MaxCols of them fill the usable width.
MaxLen == 6
MaxCols == 3

width == 1200
padding == 60
line_spacing == 20
font_size == 48
\* `+ 40`, the allowance for a header, in total_height
header == 40
\* `self.padding + 30`, where the first line is drawn
first_line_offset == 30

\* The four colours of self.background_colors, by index
background_colors == 1..4

LayoutChars == {"a", " ", "\n"}
LayoutTexts == UNION { [1..n -> LayoutChars] : n \in 0..MaxLen }

\* draw.textbbox(...)[2] - [0] of a string in the chosen font
text_width(s) == Len(s) * ((width - 2 * padding) \div MaxCols)

RECURSIVE split(_, _)
\* str.split(sep) for a one-character sep
split(s, sep) ==
    IF \A i \in 1..Len(s) : s[i] # sep
    THEN <<s>>
    ELSE LET i == CHOOSE j \in 1..Len(s) :
                     s[j] = sep /\ \A k \in 1..(j - 1) : s[k] # sep
         IN  <<SubSeq(s, 1, i - 1)>> \o split(SubSeq(s, i + 1, Len(s)), sep)

RECURSIVE join(_, _)
\* sep.join(parts)
join(parts, sep) ==
    IF parts = <<>> THEN <<>>
    ELSE IF Len(parts) = 1 THEN parts[1]
    ELSE parts[1] \o <<sep>> \o join(Tail(parts), sep)

RECURSIVE words_of(_)
\* str.split() with no argument: the maximal runs of non-whitespace
words_of(s) ==
    LET t == lstrip(s) IN
    IF t = <<>> THEN <<>>
    ELSE LET n == CHOOSE j \in 1..Len(t) :
                     /\ \A k \in 1..j : t[k] \notin Whitespace
                     /\ (j = Len(t) \/ t[j + 1] \in Whitespace)
         IN  <<SubSeq(t, 1, n)>> \o words_of(SubSeq(t, n + 1, Len(t)))

RECURSIVE replace_double(_)
\* line.replace("  ", " "): one pass, left to right, without overlap
replace_double(s) ==
    IF Len(s) < 2 THEN s
    ELSE IF s[1] = " " /\ s[2] = " "
         THEN <<" ">> \o replace_double(SubSeq(s, 3, Len(s)))
         ELSE <<s[1]>> \o replace_double(Tail(s))

has_double(s) == \E i \in 1..(Len(s) - 1) : s[i] = " " /\ s[i + 1] = " "

RECURSIVE collapse(_)
\* while "  " in line: line = line.replace("  ", " ")
collapse(s) == IF has_double(s) THEN collapse(replace_double(s)) ELSE s

\* line.strip(" ") of one line of text.split("\n")
strip_line(s) == strip(s)

RECURSIVE clean_lines(_)
\* the loop over `lines` in _clean_text
clean_lines(lines) ==
    IF lines = <<>> THEN <<>>
    ELSE LET line == strip_line(Head(lines)) IN
         IF Truthy(line)
         THEN <<collapse(line)>> \o clean_lines(Tail(lines))
         ELSE clean_lines(Tail(lines))

_clean_text(text) == join(clean_lines(split(text, "\n")), "\n")

RECURSIVE wrap_words(_, _, _)
\* the loop over `words` of one original line, and the flush after it
wrap_words(words, current_line, max_width) ==
    IF words = <<>>
    THEN IF current_line # <<>> THEN <<join(current_line, " ")>> ELSE <<>>
    ELSE LET word == Head(words)
             test_line == join(current_line \o <<word>>, " ")
         IN  IF text_width(test_line) <= max_width
             THEN wrap_words(Tail(words), current_line \o <<word>>, max_width)
             ELSE (IF current_line # <<>> THEN <<join(current_line, " ")>> ELSE <<>>)
                  \o wrap_words(Tail(words), <<word>>, max_width)

RECURSIVE wrap_lines(_, _)
\* the loop over `original_lines` in _wrap_text
wrap_lines(original_lines, max_width) ==
    IF original_lines = <<>> THEN <<>>
    ELSE (IF ~Truthy(strip(Head(original_lines)))
          THEN << <<>> >>
          ELSE wrap_words(words_of(Head(original_lines)), <<>>, max_width))
         \o wrap_lines(Tail(original_lines), max_width)

\* A line fits the width it is wrapped to.
Fits(line, max_width) == text_width(line) <= max_width

\* Mutant of _wrap_text: a line that does not fit is left out.
_wrap_text_fitting_only(text, max_width) ==
    LET result_lines == wrap_lines(split(text, "\n"), max_width)
        fitting == SelectSeq(result_lines, LAMBDA line : Fits(line, max_width))
    IN  IF fitting # <<>> THEN fitting ELSE <<text>>

\* Mutant of _wrap_text: the original lines are kept as they are.
_wrap_text_unwrapped(text, max_width) == split(text, "\n")

\* Mutant of _wrap_text: the words of the whole text are wrapped as one run.
_wrap_text_across_breaks(text, max_width) ==
    LET result_lines == wrap_words(words_of(text), <<>>, max_width)
    IN  IF result_lines # <<>> THEN result_lines ELSE <<text>>

_wrap_text(text, max_width) ==
    LET result_lines == wrap_lines(split(text, "\n"), max_width)
    IN  IF result_lines # <<>> THEN result_lines ELSE <<text>>

\* Mutant of total_height: the canvas is never lower than min_height (400).
total_height_at_least_min(lines) ==
    LET h == Len(lines) * (font_size + line_spacing) + 2 * padding + header
    IN  IF h < 400 THEN 400 ELSE h

total_height(lines) == Len(lines) * (font_size + line_spacing) + 2 * padding + header

\* Mutant of canvas: a supplied background is never used.
canvas_solid(background_image_bytes, decodable, colour) == <<"solid", colour>>

\* The canvas the text is drawn on: the supplied background resized to the
\* canvas, or a solid colour of the palette when none is supplied or the
\* supplied one cannot be decoded.
canvas(background_image_bytes, decodable, colour) ==
    IF background_image_bytes # NoBytes /\ decodable
    THEN <<"image", background_image_bytes>>
    ELSE <<"solid", colour>>

\* _get_font: one of the system fonts, or the built-in font when none of them
\* can be loaded
_get_font(system_font) == IF system_font THEN "system" ELSE "default"

RECURSIVE draw_lines(_, _)
\* the drawing loop: <<line, y>> for every line drawn; a blank line only
\* advances y
draw_lines(lines, y_position) ==
    IF lines = <<>> THEN <<>>
    ELSE (IF ~Truthy(strip(Head(lines))) THEN <<>> ELSE << <<Head(lines), y_position>> >>)
         \o draw_lines(Tail(lines), y_position + font_size + line_spacing)

\* What a call of the engine computed
Rendering(text, cleaned_text, lines, result) ==
    [fn |-> "create_image_with_text", text |-> text, cleaned_text |-> cleaned_text,
     lines |-> lines, result |-> result]

\* Mutant of render_image: a background that cannot be decoded is an error.
render_image_strict_background(text, background_image_bytes, decodable, system_font, colour, ok) ==
    IF Blank(text) \/ ~ok \/ (background_image_bytes # NoBytes /\ ~decodable)
    THEN Rendering(text, <<>>, <<>>, None)
    ELSE LET cleaned_text == _clean_text(text)
             lines == _wrap_text(cleaned_text, width - 2 * padding)
         IN  Rendering(text, cleaned_text, lines,
                 Some([width |-> width, height |-> total_height(lines),
                       background |-> canvas(background_image_bytes, decodable, colour),
                       font |-> _get_font(system_font),
                       drawn |-> draw_lines(lines, padding + first_line_offset)]))

\* create_image_with_text, with everything it depends on as inputs: whether
\* the background decodes, whether a system font is found, the colour
\* random.choice picks, and ok = no exception escapes into the outer except.
render_image(text, background_image_bytes, decodable, system_font, colour, ok) ==
    IF Blank(text) \/ ~ok
    THEN Rendering(text, <<>>, <<>>, None)
    ELSE LET cleaned_text == _clean_text(text)
             lines == _wrap_text(cleaned_text, width - 2 * padding)
         IN  Rendering(text, cleaned_text, lines,
                 Some([width |-> width, height |-> total_height(lines),
                       background |-> canvas(background_image_bytes, decodable, colour),
                       font |-> _get_font(system_font),
                       drawn |-> draw_lines(lines, padding + first_line_offset)]))

InitLayout ==
    /\ users = {"A"}
    /\ Fresh
    /\ Unused

\* One call of ImageGenerator.create_image_with_text.  Of the inputs, what
\* the call leaves behind besides its result is whether a background was
\* supplied and whether it went wrong.
generate(text, background_image_bytes, decodable, system_font, colour, ok) ==
    /\ call' = [background_image_bytes |-> background_image_bytes,
                decodable |-> background_image_bytes = NoBytes \/ decodable,
                system_font |-> system_font,
                ok |-> ok]
               @@ render_image(text, background_image_bytes, decodable, system_font,
                               colour, ok)
    /\ UNCHANGED <<config, ocr_service, objects, session>>

\* The first call renders any text; a later call renders the same text
\* again, with or without a background (the confirm handler renders the
\* stored text as often as the user confirms it).
NextLayout ==
    \/ /\ call = NoCall
       /\ \E text \in LayoutTexts, background_image_bytes \in {NoBytes, "img1"},
             decodable \in BOOLEAN, system_font \in BOOLEAN,
             colour \in background_colors, ok \in BOOLEAN :
              generate(text, background_image_bytes, decodable, system_font, colour, ok)
    \/ /\ call # NoCall
       /\ \E background_image_bytes \in {NoBytes, "img1"},
             decodable \in BOOLEAN, colour \in background_colors :
              generate(call.text, background_image_bytes, decodable, call.system_font,
                       colour, call.ok)

\* The layout engine on its own.
SpecLayout == InitLayout /\ [][NextLayout]_vars

\* ---------------------------------------------------- display of a text
\* escape_html_for_display and the four places that embed a text in a
\* <code> element: the text is cut to max_text_length first, then escaped.
DisplayChars == {"<", ">", "&", "\"", "a"}
\* The longest text shown; one character longer than the slice keeps.
MaxShown == 5
\* A text that is shown came out of the blank test, so it is not empty.
DisplayTexts == UNION { [1..n -> DisplayChars] : n \in 1..MaxShown }

RECURSIVE strip_tags(_)
\* re.sub(r'<[^>]+>', '', text): a "<" followed by at least one character
\* other than ">" and then a ">" is removed, leftmost match first
strip_tags(s) ==
    IF s = <<>> THEN <<>>
    ELSE IF /\ Head(s) = "<"
            /\ \E j \in 3..Len(s) : s[j] = ">" /\ \A k \in 2..(j - 1) : s[k] # ">"
         THEN LET j == CHOOSE i \in 3..Len(s) :
                           s[i] = ">" /\ \A k \in 2..(i - 1) : s[k] # ">"
              IN  strip_tags(SubSeq(s, j + 1, Len(s)))
         ELSE <<Head(s)>> \o strip_tags(Tail(s))

\* What html.escape writes for one character (quote=True)
entity(c) ==
    CASE c = "&" -> <<"&", "a", "m", "p", ";">>
      [] c = "<" -> <<"&", "l", "t", ";">>
      [] c = ">" -> <<"&", "g", "t", ";">>
      [] c = "\"" -> <<"&", "q", "u", "o", "t", ";">>
      [] c = "'" -> <<"&", "#", "x", "2", "7", ";">>
      [] OTHER -> <<c>>

RECURSIVE html_escape(_)
\* html.escape(text)
html_escape(s) == IF s = <<>> THEN <<>> ELSE entity(Head(s)) \o html_escape(Tail(s))

\* Mutant of escape_html_for_display: the tags are stripped, nothing is escaped.
escape_html_for_display_strip_only(text) == strip_tags(text)

escape_html_for_display(text) == html_escape(strip_tags(text))

\* One text shown to the user: extracted_text[:max_text_length], escaped and
\* embedded.
show(extracted_text) ==
    /\ call = NoCall
    /\ LET display_text == Slice(extracted_text, max_text_length) IN
       call' = [fn |-> "escape_html_for_display", text |-> extracted_text,
                display_text |-> display_text,
                display_text_escaped |-> escape_html_for_display(display_text)]
    /\ UNCHANGED <<config, ocr_service, objects, session>>

InitDisplay ==
    /\ users = {"A"}
    /\ Fresh
    /\ Unused

NextDisplay == \E extracted_text \in DisplayTexts : show(extracted_text)

\* The display of a text on its own.
SpecDisplay == InitDisplay /\ [][NextDisplay]_vars

\* ================================================================== claims
RECURSIVE Copies(_)
\* Number of suspended tasks among the task values S
Copies(S) ==
    IF S = {} THEN 0
    ELSE LET t == CHOOSE x \in S : TRUE IN CopiesIn(t, tasks) + Copies(S \ {t})

Extractions(u) == {t \in Running : t.h = "upload" /\ t.u = u /\ t.pc \in {"submit", "poll"}}
Confirms(u) == {t \in Running : t.h = "confirm" /\ t.u = u}
Pending == {waiting_for_confirmation, editing_text}

\* C1 (as claimed): a confirm click that arrives when the state is not
\* waiting_for_confirmation changes neither state nor text and is answered
\* with a user error.
C1_ConfirmOutsideIsReported ==
    [][(last'.ev = "unhandled" /\ last'.why = "confirm_text")
         => (last'.reply = "user_error" /\ state' = state /\ data' = data)]_vars

\* C2 (as claimed): one pending text is rendered by at most one confirm
\* handler: no two suspended confirm handlers of a user hold the same text.
C2_OneRenderPerPendingText ==
    \A u \in users : \A t \in Confirms(u) :
        Copies({t2 \in Confirms(u) : t2.text = t.text}) <= 1

\* C3 (as claimed): at most one extraction is in flight per user.
C3_OneExtractionPerUser == \A u \in users : Copies(Extractions(u)) <= 1

\* C4: an upload that arrives in waiting_for_confirmation or editing_text
\* gets the "finish current operation" notice, starts no handler task (no
\* download, no OCR request) and leaves state and text as they were.
C4_UploadWhilePendingRejected ==
    [][(last'.ev = "upload" /\ state[last'.u] \in Pending)
         => (last'.reply = "finish_current" /\ UNCHANGED <<state, data, tasks>>)]_vars

C4_Witness ==
    /\ last.ev = "upload" /\ last.reply = "finish_current"
    /\ state[last.u] = editing_text /\ data[last.u] # <<>>

\* C5 (as claimed): text is stored only in waiting_for_confirmation or
\* editing_text.
C5_TextOnlyWhilePending == \A u \in users : data[u] # <<>> => state[u] \in Pending

\* C6 (as claimed): a handler that is left by an exception has cleared the
\* session and sent the apology (unless sending the apology itself raised).
C6_ExceptionClearsAndApologises ==
    (last.ev \in {"upload_except", "background_except", "confirm_raise"}
       /\ last.reply # "apology_failed")
      => (last.reply = "apology" /\ state[last.u] = NoState /\ data[last.u] = <<>>)

\* C7 (as claimed): after a failed or blank extraction the user has the
\* failure message, no text is stored and the session is Idle.
C7_FailedExtractionLeavesIdle ==
    (last.ev = "extracted" /\ last.why # "" /\ ~last.exc)
      => (last.reply = "extract_failed" /\ state[last.u] = NoState /\ data[last.u] = <<>>)

\* C7 (amended): after a failed or blank extraction the user is sent the
\* failure message and the handler writes neither state nor text: the session
\* is what the other events of that user made of it meanwhile.
C7_FailedExtractionWritesNothing ==
    [][(last'.ev = "extracted" /\ last'.why # "")
         => /\ ~last'.exc => last'.reply = "extract_failed"
            /\ UNCHANGED <<state, data>>]_vars

C7_Witness ==
    /\ last.ev = "extracted" /\ last.why = "timeout" /\ last.reply = "extract_failed"
    /\ state[last.u] = NoState /\ data[last.u] = <<>>

\* The confirm handler takes the stored text whole, and the layout engine is
\* handed the text the confirm handler took.
ConfirmPassesStoredText ==
    /\ (last.ev = "confirm" /\ last.reply = "none")
         => \E t \in Confirms(last.u) : t.pc = "render" /\ Some(t.text) = data[last.u]
    /\ last.ev = "render"
         => \E t \in Confirms(last.u) : t.pc = "clear" /\ Some(t.text) = last.rendered

\* C8 (as claimed): an accepted edit E is stored, and so rendered, exactly.
C8_EditedTextExact ==
    /\ (last.ev = "edited" /\ last.reply = "edited_view") => data[last.u] = Some(last.arg)
    /\ ConfirmPassesStoredText

\* C8 (amended): an accepted edit E is stored, and so rendered, as E without
\* its leading and trailing whitespace, never as the truncated display copy.
C8_EditedTextStripped ==
    /\ (last.ev = "edited" /\ last.reply = "edited_view")
         => data[last.u] = Some(strip(last.arg))
    /\ ConfirmPassesStoredText

C8_Witness ==
    /\ last.ev = "render" /\ last.reply = "photo"
    /\ last.rendered = Some(LongText) /\ Len(LongText) > max_text_length

\* A step that starts no download and no extraction for user u
NoExtractionStarted(u) ==
    tasks' = tasks \/ tasks' = tasks (+) SetToBag({Task("upload", "except", u)})

\* C9: an upload whose declared size exceeds the ceiling of its kind (images
\* IMAGE_MAX_SIZE, PDFs PDF_MAX_SIZE) starts no download and no extraction
\* and leaves the session as it was.
C9_OversizeNeverExtracted ==
    [][\A u \in users, size \in Sizes, exc \in BOOLEAN :
         /\ (size > IMAGE_MAX_SIZE /\ handle_photo(u, size, exc))
              => (NoExtractionStarted(u) /\ UNCHANGED <<state, data>>)
         /\ \A is_image, is_pdf \in BOOLEAN :
              (/\ is_image \/ is_pdf
               /\ size > (IF is_pdf THEN PDF_MAX_SIZE ELSE IMAGE_MAX_SIZE)
               /\ handle_document(u, is_image, is_pdf, size, exc))
              => (NoExtractionStarted(u) /\ UNCHANGED <<state, data>>)]_vars

C9_Witness ==
    /\ last.ev = "upload" /\ last.reply = "too_big"
    /\ state[last.u] = NoState /\ Extractions(last.u) = {}

C11_BackgroundOnlyByUpload ==
    [][/\ user_backgrounds' # user_backgrounds => last'.ev = "background_store"
       /\ last'.ev = "background_store" =>
             /\ user_backgrounds'[last'.u] = last'.bg
             /\ \A b \in Users : b # last'.u => user_backgrounds'[b] = user_backgrounds[b]]_vars

C11_Witness ==
    /\ last.ev = "cancel" /\ last.why \in Pending /\ last.arg # <<>>
    /\ user_backgrounds[last.u] = "img1"

\* A step that starts no background download
NoDownloadStarted ==
    \A t \in BagToSet(tasks') :
        (t.h = "background" /\ t.pc = "download") => CopiesIn(t, tasks') <= CopiesIn(t, tasks)

\* C12: in waiting_for_background a photo above IMAGE_MAX_SIZE starts no
\* download and writes nothing to the background store; a photo within the
\* ceiling is downloaded, and the step that stores it replaces the entry of
\* its user and leaves the session Idle with no text.
C12_BackgroundSizeValidated ==
    [][/\ \A u \in users, size \in Sizes, bytes \in Bytes, exc \in BOOLEAN :
             handle_background_photo(u, size, bytes, exc) =>
                 /\ state[u] = waiting_for_background
                 /\ UNCHANGED user_backgrounds
                 /\ IF size > IMAGE_MAX_SIZE
                    THEN NoDownloadStarted /\ UNCHANGED <<state, data>>
                    ELSE tasks' = tasks (+) SetToBag({[Task("background", "download", u)
                                                         EXCEPT !.bytes = bytes]})
       /\ \A t \in Running, exc \in BOOLEAN :
             background_store(t, exc) =>
                 /\ user_backgrounds'[t.u] = t.bytes
                 /\ state'[t.u] = NoState /\ data'[t.u] = <<>>]_vars

C12_Witness ==
    /\ last.ev = "background_store" /\ last.reply = "bg_saved" /\ last.bg = "img2"
    /\ user_backgrounds[last.u] = "img2" /\ state[last.u] = NoState

\* C13: a message that is not a photo (a text, a document), received in
\* waiting_for_background, gets the retry prompt; the session stays in
\* waiting_for_background and the background store is unchanged.
C13_NonImageInBackgroundRetries ==
    [][(state[last'.u] = waiting_for_background
          /\ last'.ev \in {"upload", "edited", "background_invalid"})
         => /\ last'.ev = "background_invalid" /\ last'.reply = "bg_retry"
            /\ state'[last'.u] = waiting_for_background
            /\ UNCHANGED <<state, data, user_backgrounds, tasks>>]_vars

C13_Witness ==
    /\ last.ev = "background_invalid" /\ last.reply = "bg_retry"
    /\ state[last.u] = waiting_for_background /\ user_backgrounds[last.u] = "img1"

\* C14: in editing_text a replacement that is empty after trimming gets the
\* resubmit notice and leaves state and text as they were; a replacement that
\* is non-empty after trimming is stored and moves the session to
\* waiting_for_confirmation.
C14_BlankEditRefused ==
    [][last'.ev = "edited" =>
         /\ state[last'.u] = editing_text
         /\ IF strip(last'.arg) = <<>>
            THEN /\ last'.reply = "empty_edit"
                 /\ UNCHANGED <<state, data>>
            ELSE /\ last'.reply = "edited_view"
                 /\ state'[last'.u] = waiting_for_confirmation
                 /\ data'[last'.u] = Some(strip(last'.arg))]_vars

C14_Witness ==
    /\ last.ev = "edited" /\ last.reply = "empty_edit" /\ last.arg = <<" ">>
    /\ state[last.u] = editing_text /\ data[last.u] # <<>>

\* C15: the edit click and the back-to-confirmation click change the state
\* only (to editing_text and to waiting_for_confirmation); the stored text,
\* the background store and the running handlers are as before.
C15_EditAndBackKeepText ==
    [][/\ last'.ev = "edit" =>
             /\ state[last'.u] = waiting_for_confirmation
             /\ state'[last'.u] = editing_text
             /\ data[last'.u] # <<>>
             /\ UNCHANGED <<data, user_backgrounds, tasks>>
       /\ last'.ev = "back_to_confirmation" =>
             /\ state[last'.u] = editing_text
             /\ state'[last'.u] = waiting_for_confirmation
             /\ UNCHANGED <<data, user_backgrounds, tasks>>]_vars

C15_Witness ==
    /\ last.ev = "back_to_confirmation" /\ state[last.u] = waiting_for_confirmation
    /\ data[last.u] = Some(LongText)

\* C16 (as claimed): a cancel click in waiting_for_confirmation or
\* editing_text discards the text and leaves the session Idle, and no image
\* is rendered and delivered for the discarded text afterwards.
C16_CancelDiscardsForGood ==
    [][/\ (last'.ev = "cancel" /\ state[last'.u] \in Pending)
            => (state'[last'.u] = NoState /\ data'[last'.u] = <<>>)
       /\ (last.ev = "cancel" /\ last.why \in Pending
              /\ last'.ev = "render" /\ last'.u = last.u /\ last'.reply = "photo")
            => last'.rendered # Some(last.arg)]_vars

\* C17 (as claimed): when the layout engine gives no image, the confirm
\* handler that asked for it (the only handler running) ends without the
\* success acknowledgement.
C17_NoSuccessAfterFailedRender ==
    [][(last.ev = "render" /\ last.reply = "image_failed" /\ BagCardinality(tasks) = 1
          /\ last'.ev = "confirm_clear" /\ last'.u = last.u)
         => last'.reply # "image_created"]_vars

\* A step after which upload task t is gone and no task has begun to poll
EndsExtraction(t) ==
    /\ CopiesIn(t, tasks') = CopiesIn(t, tasks) - 1
    /\ \A t2 \in BagToSet(tasks') :
          (t2.h = "upload" /\ t2.pc \in {"submit", "poll"})
            => CopiesIn(t2, tasks') <= CopiesIn(t2, tasks)

\* C18: a submit answered with a non-200 status or a falsy success flag ends
\* the extraction with None at once: the one submit request is not repeated
\* and no status request follows.
C18_FailedSubmitNoPoll ==
    [][\A t \in Running, resp \in SubmitResponses, exc \in BOOLEAN :
         (/\ resp.kind = "http" /\ (resp.status # 200 \/ ~resp.success)
          /\ submit(t, resp, exc))
         => /\ _submit_image(resp) = Return(None)
            /\ EndsExtraction(t)
            /\ last'.ev = "extracted" /\ last'.why = "submit"
            /\ ~exc => last'.reply = "extract_failed"
            /\ UNCHANGED <<state, data>>]_vars

C18_Witness ==
    /\ last.ev = "extracted" /\ last.why = "submit" /\ last.reply = "extract_failed"
    /\ tasks = EmptyBag

\* Poll answers that are not terminal
NonTerminal ==
    { HttpResp(200, "processing", FALSE, None), HttpResp(200, "queued", FALSE, None),
      HttpResp(500, "", FALSE, None), ClientError }

\* C19: a polling task has always made fewer than MAX_POLLS status requests
\* before its next one; a non-terminal answer (processing, an unrecognised
\* status, a non-200 status, a network error) uses up exactly one attempt,
\* and on the last attempt it ends the extraction with None.
C19_PollBudget ==
    [][/\ \A t \in BagToSet(tasks') : t.i < MAX_POLLS
       /\ \A resp \in NonTerminal : resp \in PollResponses /\ poll_once(resp) = Continue
       /\ \A t \in Running, resp \in NonTerminal, exc \in BOOLEAN :
             poll(t, resp, exc) =>
                 IF t.i + 1 < MAX_POLLS
                 THEN /\ tasks' = Replace(t, [t EXCEPT !.i = t.i + 1])
                      /\ last'.ev = "poll"
                      /\ UNCHANGED <<state, data>>
                 ELSE /\ EndsExtraction(t)
                      /\ last'.ev = "extracted" /\ last'.why = "timeout"
                      /\ ~exc => last'.reply = "extract_failed"
                      /\ UNCHANGED <<state, data>>]_vars

C19_Witness ==
    /\ last.ev = "extracted" /\ last.why = "timeout" /\ ~last.exc
    /\ tasks = EmptyBag /\ MAX_POLLS > 1

\* What a terminal poll answer decides: the result text (an absent or empty
\* text is the empty string), or None
Decided(resp) ==
    IF resp.st = "complete" /\ resp.success
    THEN (IF resp.markdown = None THEN Some(<<>>) ELSE resp.markdown)
    ELSE None

\* C20: the first terminal poll answer ends the polling and decides the
\* result: complete with success gives the answer's text, the empty string
\* staying a string; complete without success and failed give None.
C20_TerminalDecides ==
    [][\A t \in Running, resp \in PollResponses, exc \in BOOLEAN :
         (/\ resp.kind = "http" /\ resp.status = 200 /\ resp.st \in {"complete", "failed"}
          /\ poll(t, resp, exc))
         => /\ poll_once(resp) = Return(Decided(resp))
            /\ EndsExtraction(t)
            /\ last'.ev = "extracted"
            /\ last'.why = (IF Decided(resp) = None THEN "failed_job"
                            ELSE IF Blank(Decided(resp)[1]) THEN "empty" ELSE "")
            /\ last'.why = "" => data'[t.u] = Decided(resp)]_vars

C20_Witness ==
    /\ last.ev = "extracted" /\ last.why = "empty" /\ last.reply = "extract_failed"
    /\ data[last.u] = <<>>

\* The answers after which an extraction has failed: any submit answer but
\* an accepted one with a request id; a poll answer that is an exception, a
\* terminal answer deciding None, or a non-terminal answer on the last attempt
FailedSubmit(resp) == resp # HttpResp(200, "r1", TRUE, None)
FailedPoll(t, resp) ==
    \/ resp = OtherError
    \/ resp.kind = "http" /\ resp.status = 200 /\ resp.st \in {"complete", "failed"}
          /\ Decided(resp) = None
    \/ resp \in NonTerminal /\ t.i + 1 = MAX_POLLS

\* The caller of extract_text_from_image got None: it reports the failed
\* extraction, stores nothing, and (unless its own notice raises) ends
\* normally, not through its except block.
CallerGotNone(t, exc) ==
    /\ EndsExtraction(t)
    /\ last'.ev = "extracted"
    /\ last'.why \in {"exception", "submit", "failed_job", "timeout"}
    /\ UNCHANGED <<state, data>>
    /\ ~exc => /\ last'.reply = "extract_failed" /\ ~last'.exc
                /\ tasks' = tasks (-) SetToBag({t})

\* C21: every failure of the OCR client (submit error, network error,
\* malformed answer or other exception, failed job, timeout) reaches the
\* caller as None: nothing is raised to it and no text is handed over.
C21_FailureIsNone ==
    [][/\ \A t \in Running, resp \in SubmitResponses, exc \in BOOLEAN :
             (FailedSubmit(resp) /\ submit(t, resp, exc)) => CallerGotNone(t, exc)
       /\ \A t \in Running, resp \in PollResponses, exc \in BOOLEAN :
             (FailedPoll(t, resp) /\ poll(t, resp, exc)) => CallerGotNone(t, exc)]_vars

C21_Witness ==
    /\ last.ev = "extracted" /\ last.why = "exception" /\ last.reply = "extract_failed"
    /\ ~last.exc /\ tasks = EmptyBag /\ data[last.u] = <<>>

\* The backend objects the selector holds
Present == {k \in {"datalab", "paddle"} :
               (IF k = "paddle" THEN ocr_service.paddle_service
                ELSE ocr_service.datalab_service) # NoObject}

\* C22: a switch that fails (unknown kind, missing key, construction raises)
\* reports failure and leaves the provider tag and both backend slots, so
\* the backend object that was active, as they were; a switch that
\* constructs installs a new object under the requested tag.
C22_SwitchReplacesOnSuccess ==
    [][\A request \in Requests, paddle_ok \in BOOLEAN :
         set_provider(request, paddle_ok) =>
            LET kind == lower(request)
                fails == \/ kind \notin {"datalab", "paddle"}
                         \/ kind \notin Present /\ kind = "paddle" /\ ~paddle_ok
                         \/ kind \notin Present /\ kind = "datalab" /\ ~config.DATALAB_API_KEY
            IN /\ call'.ok = ~fails
               /\ ~call'.ok => (ocr_service' = ocr_service /\ objects' = objects)
               /\ call'.ok => /\ ocr_service'.provider = kind
                               /\ Present' = {kind}
                               /\ kind \notin Present =>
                                     (objects' = objects + 1 /\ objects' \in
                                        {ocr_service'.paddle_service, ocr_service'.datalab_service})]_vars

C22_Witness ==
    /\ call.fn = "set_provider" /\ ~call.ok /\ call.msg = "paddle_failed"
    /\ ocr_service.provider = "datalab" /\ ocr_service.datalab_service = 2

\* C23 (as claimed): after initialisation and any switches exactly one
\* backend object is present, the one the provider tag names.
C23_ExactlyOneBackend == Present = {ocr_service.provider}

\* C23 (amended): at most one backend object is present and it is the one
\* the provider tag names; none is present only while no construction has
\* succeeded yet, and extraction then gives None.
C23_AtMostOneBackend ==
    /\ Present \subseteq {ocr_service.provider}
    /\ (Present = {}) = (objects = 0)
    /\ call.fn = "extract_text" =>
          /\ call.used = (IF Present = {} THEN NoObject
                           ELSE IF ocr_service.provider = "paddle" THEN ocr_service.paddle_service
                           ELSE ocr_service.datalab_service)
          /\ Present = {} => call.result = None

C23_Witness ==
    /\ call.fn = "set_provider" /\ ~call.ok /\ objects >= 2
    /\ Present = {"paddle"}

\* ---------------------------------------------------------------------------
\* The text of the last call contains an explicit line break.
HasLineBreak(text) == \E i \in 1..Len(text) : text[i] = "\n"

RECURSIVE GroupWords(_, _, _)
\* The words of the lines that f assigns to paragraph k, in order
GroupWords(lines, f, k) ==
    IF lines = <<>> THEN <<>>
    ELSE (IF f[1] = k THEN words_of(Head(lines)) ELSE <<>>)
         \o GroupWords(Tail(lines), [i \in 1..(Len(lines) - 1) |-> f[i + 1]], k)

\* Every visual line belongs to one paragraph: the lines can be assigned to
\* the paragraphs, in order, so that the lines of a paragraph carry exactly
\* its words.
OneParagraphPerLine(lines, paragraphs) ==
    \E f \in [1..Len(lines) -> 1..Len(paragraphs)] :
        /\ \A i \in 1..(Len(lines) - 1) : f[i] <= f[i + 1]
        /\ \A k \in 1..Len(paragraphs) :
              GroupWords(lines, f, k) = words_of(paragraphs[k])

\* C24: for a text with an explicit line break, every line that comes out of
\* normalising and wrapping consists of words of a single normalised input
\* line, so no visual line carries words of two paragraphs.
C24_ParagraphsNeverMerge ==
    (call.fn = "create_image_with_text" /\ call.result # None /\ HasLineBreak(call.text))
        => /\ OneParagraphPerLine(call.lines, split(call.cleaned_text, "\n"))
           /\ \A i \in 1..Len(call.lines) : ~HasLineBreak(call.lines[i])

\* A text of two paragraphs that would fit on one visual line together, and
\* are laid out on two.
C24_Witness ==
    /\ call.fn = "create_image_with_text"
    /\ call.result # None
    /\ HasLineBreak(call.text)
    /\ Len(split(call.cleaned_text, "\n")) = 2
    /\ text_width(join(split(call.cleaned_text, "\n"), " ")) <= width - 2 * padding
    /\ call.lines = split(call.cleaned_text, "\n")


\* ---------------------------------------------------------------------------
\* The raw lines of the text, as text.split("\n") gives them
RawLines(text) == split(text, "\n")

\* A line empty before trimming stands between two lines that carry words.
HasEmptyLineBetween(text) ==
    \E i \in 2..(Len(RawLines(text)) - 1) :
        /\ RawLines(text)[i] = <<>>
        /\ Truthy(strip(RawLines(text)[i - 1]))
        /\ Truthy(strip(RawLines(text)[i + 1]))

\* C25: normalisation keeps a line that was empty before trimming as an
\* empty-line marker, which advances the vertical position without being
\* drawn: a text with an empty line between two lines of words is laid out
\* with an empty line, and nothing is drawn where it stands.
C25_EmptyLineKept ==
    (call.fn = "create_image_with_text" /\ call.result # None
        /\ HasEmptyLineBetween(call.text))
        => /\ \E i \in 1..Len(call.lines) : call.lines[i] = <<>>
           /\ Len(call.result[1].drawn) < Len(call.lines)

\* What the code does instead: no line of the normalised text is empty,
\* whether it was empty before trimming or after, every line laid out is
\* drawn, and the lines kept have no run of spaces.
C25_NoEmptyLineSurvives ==
    (call.fn = "create_image_with_text" /\ call.result # None)
        => /\ \A i \in 1..Len(RawLines(call.cleaned_text)) :
                 /\ Truthy(RawLines(call.cleaned_text)[i])
                 /\ ~has_double(RawLines(call.cleaned_text)[i])
           /\ Len(call.result[1].drawn) = Len(call.lines)

\* The text "a", empty line, "a" rendered as two lines one line height apart.
C25_Witness ==
    /\ call.fn = "create_image_with_text"
    /\ call.result # None
    /\ call.text = <<"a", "\n", "\n", "a">>
    /\ call.lines = << <<"a">>, <<"a">> >>


\* ---------------------------------------------------------------------------
\* The call c produced an image.
Rendered(c) == c.fn = "create_image_with_text" /\ c.result # None

\* C26: the canvas is `width` wide and as high as the wrapped line count
\* says: lines x (font size + line spacing) + 2 x padding + header allowance,
\* 364 for three lines; a second render of the same text has the dimensions
\* of the first, whether or not either of them had a background.
C26_DimensionsFromLineCount ==
    [][Rendered(call') =>
          /\ call'.result[1].width = width
          /\ call'.result[1].height =
                 Len(call'.lines) * (font_size + line_spacing) + 2 * padding + header
          /\ (Len(call'.lines) = 3 => call'.result[1].height = 364)
          /\ (Rendered(call) /\ call.text = call'.text) =>
                 /\ call'.result[1].width = call.result[1].width
                 /\ call'.result[1].height = call.result[1].height]_vars

\* Three wrapped lines drawn over a supplied background.
C26_Witness ==
    /\ Rendered(call)
    /\ Len(call.lines) = 3
    /\ call.result[1].background = <<"image", "img1">>
    /\ call.result[1].height = 364

\* C27: the render returns null only for empty or whitespace-only text or
\* for an error that escapes the rendering; a background that cannot be
\* decoded gives a solid colour of the palette, a missing system font gives
\* the built-in font, and both still give an image.
C27_NullOnlyForBlankOrError ==
    call.fn = "create_image_with_text" =>
        /\ call.result = None <=> (Blank(call.text) \/ ~call.ok)
        /\ (Rendered(call) /\ call.background_image_bytes # NoBytes /\ ~call.decodable)
              => /\ call.result[1].background[1] = "solid"
                 /\ call.result[1].background[2] \in background_colors
        /\ (Rendered(call) /\ ~call.system_font) => call.result[1].font = "default"

\* An image rendered with the built-in font over a solid colour although a
\* background was supplied.
C27_Witness ==
    /\ Rendered(call)
    /\ call.background_image_bytes # NoBytes
    /\ ~call.decodable
    /\ ~call.system_font
    /\ call.result[1].background[1] = "solid"


C30_PendingHoldsText ==
    /\ \A u \in users : state[u] \in Pending => Truthy(GetText(data[u]))
    /\ last.reply # "text_not_found"

\* A confirm accepted in a session with a stored text.
C30_Witness ==
    /\ last.ev = "confirm" /\ last.reply = "none"
    /\ state[last.u] = waiting_for_confirmation
    /\ Truthy(GetText(data[last.u]))


\* ---------------------------------------------------------------------------
\* The bodies of the entities html.escape writes, after their "&"
EntityBodies ==
    { <<"a", "m", "p", ";">>, <<"l", "t", ";">>, <<"g", "t", ";">>,
      <<"q", "u", "o", "t", ";">>, <<"#", "x", "2", "7", ";">> }

\* No raw "<" or ">", and every "&" begins an entity.
Neutral(s) ==
    \A i \in 1..Len(s) :
        /\ s[i] \notin {"<", ">"}
        /\ s[i] = "&" =>
              \E b \in EntityBodies :
                  /\ i + Len(b) <= Len(s)
                  /\ SubSeq(s, i + 1, i + Len(b)) = b

\* C29: the copy of a text embedded in a styled message is the displayed
\* slice with tag-like sequences stripped and the remaining significant
\* characters escaped; it holds no raw "<" or ">" and no "&" outside an
\* entity.
C29_EmbeddedCopyNeutral ==
    call.fn = "escape_html_for_display" =>
        /\ call.display_text_escaped = html_escape(strip_tags(call.display_text))
        /\ Neutral(call.display_text_escaped)

\* "<a>&" is embedded as "&amp;": the tag is gone, the ampersand is escaped.
C29_Witness ==
    /\ call.fn = "escape_html_for_display"
    /\ call.display_text = <<"<", "a", ">", "&">>
    /\ call.display_text_escaped = <<"&", "a", "m", "p", ";">>


\* ---------------------------------------------------------------------------
\* C31: an extraction that completes while its user is in
\* waiting_for_background (entered with /back while the extraction was in
\* flight) leaves that state as it is and stores no text in the session.
C31_CompletionKeepsBackgroundState ==
    [][(last'.ev = "extracted" /\ state[last'.u] = waiting_for_background)
          => /\ state'[last'.u] = waiting_for_background
             /\ data'[last'.u] = data[last'.u]]_vars

\* What the code does instead: a completion with a non-blank text moves the
\* session to waiting_for_confirmation and stores the text whatever the
\* state was; any other completion leaves state and text alone.
C31_CompletionOverwritesAnyState ==
    [][last'.ev = "extracted" =>
          IF last'.shown # <<>>
          THEN /\ state'[last'.u] = waiting_for_confirmation
               /\ Truthy(GetText(data'[last'.u]))
          ELSE UNCHANGED <<state, data>>]_vars


\* ---------------------------------------------------------------------------
\* The step just taken gave user u the confirmation view of an extracted
\* text, with the session in waiting_for_confirmation holding that text.
ReachedConfirmation(u) ==
    /\ last.u = u /\ last.ev = "extracted" /\ last.reply = "confirm_view"

\* The step just taken sent user u a failure message.
GotFailureMessage(u) ==
    /\ last.u = u
    /\ \/ last.ev = "extracted" /\ last.reply = "extract_failed"
       \/ last.ev = "upload_except" /\ last.reply = "apology"

\* The step just taken ended an upload of user u with nothing delivered: the
\* apology of the except block could not be sent either.
EndedSilently(u) ==
    last.u = u /\ last.ev = "upload_except" /\ last.reply = "apology_failed"

\* C32 (as claimed): every upload in progress leads to the confirmation view
\* or to a failure message for its user.
C32_UploadEndsInOneOfTwo ==
    \A t \in UploadTasks :
        (t \in Running) ~> (ReachedConfirmation(t.u) \/ GotFailureMessage(t.u))

\* C32 (amended): every upload in progress leads to the confirmation view,
\* to a failure message, or, when the sends to the user fail as well, to the
\* end of the handler with the session cleared; no handler polls forever.
C32_UploadEnds ==
    \A t \in UploadTasks :
        (t \in Running) ~>
            (ReachedConfirmation(t.u) \/ GotFailureMessage(t.u) \/ EndedSilently(t.u))

\* An upload that used its whole poll budget and ended with the failure
\* message.
C32_Witness ==
    /\ GotFailureMessage(last.u)
    /\ last.ev = "extracted" /\ last.why = "timeout"
    /\ Extractions(last.u) = {}


\* ---------------------------------------------------------------------------
RECURSIVE WordsInOrder(_)
\* The words of a sequence of lines, read line by line
WordsInOrder(lines) ==
    IF lines = <<>> THEN <<>> ELSE words_of(Head(lines)) \o WordsInOrder(Tail(lines))

\* The word w is wider than the usable width.
TooWide(w) == text_width(w) > width - 2 * padding

\* C33: the words read from the wrapped lines in order are the words of the
\* normalised text, none lost and none split; a word wider than the usable
\* width stands alone on its line.
C33_WrappingKeepsWords ==
    Rendered(call) =>
        /\ WordsInOrder(call.lines) = words_of(call.cleaned_text)
        /\ \A i \in 1..Len(call.lines) :
              (\E k \in 1..Len(words_of(call.lines[i])) : TooWide(words_of(call.lines[i])[k]))
                  => words_of(call.lines[i]) = <<call.lines[i]>>

\* A word wider than the usable width on a line of its own, after a line
\* with another word.
C33_Witness ==
    /\ Rendered(call)
    /\ Len(words_of(call.cleaned_text)) >= 2
    /\ \E i \in 2..Len(call.lines) : TooWide(call.lines[i])
    /\ WordsInOrder(call.lines) = words_of(call.cleaned_text)

\* C34: a wrapped line of two or more words is at most as wide as the canvas
\* less twice the padding; only a line of a single word may be wider.
C34_LinesFit ==
    Rendered(call) =>
        \A i \in 1..Len(call.lines) :
            Len(words_of(call.lines[i])) >= 2
                => text_width(call.lines[i]) <= width - 2 * padding

\* A line of two words that fills the usable width exactly, the third word
\* of its paragraph wrapped to the next line.
C34_Witness ==
    /\ Rendered(call)
    /\ ~HasLineBreak(call.cleaned_text)
    /\ Len(call.lines) = 2
    /\ Len(words_of(call.lines[1])) = 2
    /\ text_width(call.lines[1]) = width - 2 * padding

====
